---- MODULE Spec2Model ----
(***************************************************************************)
(* xextool (src/tools/xextool/xextool.c): analyze_xex_file as a state      *)
(* machine over one input byte stream.                                     *)
(*                                                                         *)
(* A uint32_t is a tuple of its four bytes, most significant first, so     *)
(* that the whole 32-bit range is representable; a uint16_t is a number.   *)
(* The host is little-endian with a 64-bit long (x86-64 Linux): fread      *)
(* stores file bytes least significant first, and the conversion of a      *)
(* uint32_t offset to the long argument of fseek keeps its value.          *)
(***************************************************************************)
EXTENDS Integers, Sequences, FiniteSets, TLC

(* ---------------- bounds of the explored inputs ------------------------ *)

\* largest number of complete 8-byte entries an explored file holds
MaxEntries == 21
\* largest number of FILE_FORMAT_INFO entries an explored table holds
MaxDup == 2

(* ---------------- program constants ------------------------------------ *)

XEX2_MAGIC == 1480939570
MAX_OPTIONAL_HEADERS == 100
DISPLAY_HEADER_LIMIT == 20
XEX_HEADER_FILE_FORMAT_INFO == 1023
XEX_HEADER_ENTRY_POINT == 65792
XEX_HEADER_IMAGE_BASE_ADDRESS == 66049
XEX_HEADER_IMPORT_LIBRARIES == 66559
XEX_HEADER_DELTA_PATCH == 1535
XEX_ENCRYPTION_NONE == 0
XEX_ENCRYPTION_NORMAL == 1
XEX_COMPRESSION_NONE == 0
XEX_COMPRESSION_BASIC == 1
XEX_COMPRESSION_NORMAL == 2
XEX_COMPRESSION_DELTA == 3
\* sizeof(XEX2_Header), sizeof(key) + sizeof(value), sizeof(FileFormatInfo)
HeaderSize == 24
EntrySize == 8
DescriptorSize == 8

(* ---------------- 32-bit and 16-bit values ------------------------------ *)

Min(a, b) == IF a < b THEN a ELSE b

\* the uint32_t with numeric value n (n < 2^31)
U32(n) == << n \div 16777216, (n \div 65536) % 256, (n \div 256) % 256, n % 256 >>

\* numeric value of a uint32_t (used only below 2^31)
Val(w) == ((w[1] * 256 + w[2]) * 256 + w[3]) * 256 + w[4]

\* a < b on uint32_t
U32Less(a, b) ==
    \E k \in 1..4 : a[k] < b[k] /\ \A j \in 1..(k - 1) : a[j] = b[j]

\* the uint32_t a little-endian host finds in four bytes of memory
LoadLE32(m) == << m[4], m[3], m[2], m[1] >>

\* the uint16_t a little-endian host finds in two bytes of memory
LoadLE16(m) == m[1] + 256 * m[2]

be32_to_cpu(val) == << val[4], val[3], val[2], val[1] >>

be16_to_cpu(val) == (val \div 256) + (val % 256) * 256

get_encryption_name(type) ==
    CASE type = XEX_ENCRYPTION_NONE -> "None"
      [] type = XEX_ENCRYPTION_NORMAL -> "Normal (Encrypted)"
      [] OTHER -> "Unknown"

get_compression_name(type) ==
    CASE type = XEX_COMPRESSION_NONE -> "None"
      [] type = XEX_COMPRESSION_BASIC -> "Basic"
      [] type = XEX_COMPRESSION_NORMAL -> "Normal"
      [] type = XEX_COMPRESSION_DELTA -> "Delta"
      [] OTHER -> "Unknown"

\* the label the switch of the entry display prints after a key
KeyLabel(key) ==
    CASE key = U32(XEX_HEADER_FILE_FORMAT_INFO) -> "FILE_FORMAT_INFO"
      [] key = U32(XEX_HEADER_ENTRY_POINT) -> "ENTRY_POINT"
      [] key = U32(XEX_HEADER_IMAGE_BASE_ADDRESS) -> "IMAGE_BASE_ADDRESS"
      [] key = U32(XEX_HEADER_IMPORT_LIBRARIES) -> "IMPORT_LIBRARIES"
      [] key = U32(XEX_HEADER_DELTA_PATCH) -> "DELTA_PATCH_DESCRIPTOR"
      [] OTHER -> ""

(* ---------------- the explored input files ------------------------------ *)

\* A file is described by the big-endian words of its header, its length and
\* the places of its FILE_FORMAT_INFO entries; FileByte gives its bytes.

\* leading words tried: "XEX2", "XEX1", and "XEX2" stored little-endian
Magics == { U32(XEX2_MAGIC), << 88, 69, 88, 49 >>, << 50, 88, 69, 88 >> }

\* declared optional_header_count values that pass the sanity check: all of
\* them are tried with short tables, those from the display limit up with
\* long tables too
TableCounts == { U32(1), U32(5), U32(20), U32(21), U32(99) }
LongCounts == { c \in TableCounts : ~U32Less(c, U32(DISPLAY_HEADER_LIMIT)) }

\* declared optional_header_count values tried with short tables only
EdgeCounts == { U32(0), U32(100), U32(101), U32(150), << 255, 255, 255, 255 >> }

\* trailing bytes after the last complete entry: none, part of a key, a whole
\* key and part of its value
PartialBytes == { 0, 3, 5 }

\* numbers of complete entries tried: short tables, and tables around the
\* display limit
ShortTables == { 0, 1, 3 }
LongTables == (DISPLAY_HEADER_LIMIT - 1)..MaxEntries

TableLength(n, p) == HeaderSize + EntrySize * n + p

\* lengths of files that end inside the primary header
HeaderLengths == { 0, 4, HeaderSize - 1 }

\* values a FILE_FORMAT_INFO entry may carry: the header, inside the table,
\* far past any explored end of file
Offsets == << 0, 28, 2147483632 >>

\* keys of the other entries, by place
Fillers == << U32(XEX_HEADER_ENTRY_POINT), U32(XEX_HEADER_IMAGE_BASE_ADDRESS),
              U32(XEX_HEADER_IMPORT_LIBRARIES), U32(XEX_HEADER_DELTA_PATCH),
              << 222, 173, 190, 239 >>, << 255, 3, 0, 0 >> >>

\* files with the given leading words, counts, lengths and places of
\* FILE_FORMAT_INFO entries
FilesOf(magics, counts, lengths, places) ==
    { f \in [ magic : magics, count : counts, len : lengths,
              ffiPos : { s \in SUBSET places : Cardinality(s) <= MaxDup },
              base : 0..2 ] :
        f.ffiPos = {} => f.base = 0 }

\* outcomes of the calls the input cannot decide: fopen, stat, fseek
EnvOk == [ openOk |-> TRUE, statOk |-> TRUE, seekOk |-> TRUE ]
EnvNoOpen == [ EnvOk EXCEPT !.openOk = FALSE ]
EnvNoStat == [ EnvOk EXCEPT !.statOk = FALSE ]
EnvNoSeek == [ EnvOk EXCEPT !.seekOk = FALSE ]

\* every leading word and every kind of length, with every failure of fopen
\* and stat
HeaderInputs ==
    FilesOf(Magics, { U32(1) },
            HeaderLengths \cup { TableLength(n, 0) : n \in { 0, 1 } }, {})
    \X { EnvOk, EnvNoOpen, EnvNoStat }

\* valid headers with short tables, complete or cut anywhere
ShortTableInputs ==
    FilesOf({ U32(XEX2_MAGIC) }, TableCounts,
            { TableLength(n, p) : n \in ShortTables, p \in PartialBytes },
            { 1, 2 })
    \X { EnvOk }

\* valid headers with tables around the display limit
LongTableInputs ==
    FilesOf({ U32(XEX2_MAGIC) }, LongCounts,
            { TableLength(n, p) : n \in LongTables, p \in PartialBytes },
            { 1, DISPLAY_HEADER_LIMIT, DISPLAY_HEADER_LIMIT + 1 })
    \X { EnvOk }

\* valid headers with the counts at and beyond the sanity limit
EdgeInputs ==
    FilesOf({ U32(XEX2_MAGIC) }, EdgeCounts,
            { TableLength(n, p) : n \in ShortTables, p \in PartialBytes }, { 1 })
    \X { EnvOk }

\* a stream that cannot seek
SeekInputs ==
    FilesOf({ U32(XEX2_MAGIC) }, { U32(1), U32(5) },
            { TableLength(n, 0) : n \in ShortTables }, { 1, 2 })
    \X { EnvNoSeek }

Inputs ==
    HeaderInputs \cup ShortTableInputs \cup LongTableInputs \cup EdgeInputs
    \cup SeekInputs

\* the inputs on which termination is checked: no FILE_FORMAT_INFO entry, or
\* one in the first place
FairInputs == { x \in Inputs : x[1].ffiPos \in { {}, { 1 } } }

\* the inputs on which the tool is run twice
RunInputs ==
    HeaderInputs \cup ShortTableInputs \cup EdgeInputs \cup SeekInputs

\* key and value of the e-th entry (1-based) as the words stored big-endian
EntryKey(f, e) ==
    IF e \in f.ffiPos THEN U32(XEX_HEADER_FILE_FORMAT_INFO)
    ELSE Fillers[((e - 1) % 6) + 1]

EntryValue(f, e) ==
    IF e \in f.ffiPos
    THEN U32(Offsets[((f.base + Cardinality({ x \in f.ffiPos : x < e })) % 3) + 1])
    ELSE U32(4096 + e)

\* the big-endian word that covers byte offset k (0-based) of the file
FileWord(f, k) ==
    IF k < HeaderSize
    THEN CASE k \div 4 = 0 -> f.magic
           [] k \div 4 = 1 -> << 0, 1, 0, 2 >>
           [] k \div 4 = 2 -> U32(8192)
           [] k \div 4 = 3 -> U32(0)
           [] k \div 4 = 4 -> U32(288)
           [] OTHER -> f.count
    ELSE IF ((k - HeaderSize) % EntrySize) < 4
         THEN EntryKey(f, ((k - HeaderSize) \div EntrySize) + 1)
         ELSE EntryValue(f, ((k - HeaderSize) \div EntrySize) + 1)

FileByte(f, k) == FileWord(f, k)[(k % 4) + 1]

(* ---------------- the stream --------------------------------------------- *)

\* fread(buf, size, 1, fp) at position p: one whole item or nothing; a short
\* read leaves the position at the end of the file
Fread(f, p, size) ==
    IF p + size <= f.len
    THEN [ ok |-> TRUE, bytes |-> [ k \in 1..size |-> FileByte(f, p + k - 1) ],
           pos |-> p + size ]
    ELSE [ ok |-> FALSE, bytes |-> << >>, pos |-> IF p > f.len THEN p ELSE f.len ]

(* ---------------- state ---------------------------------------------------- *)

VARIABLES
    file,                     \* the bytes behind filename
    env,                      \* outcomes of fopen, stat and fseek
    verbose_mode, show_encryption,
    pc,                       \* position in main / analyze_xex_file
    fp,                       \* "null", "open" or "closed"
    pos,                      \* file position of fp
    header,                   \* the XEX2_Header as read (host order of raw bytes)
    magic, opt_count, i,
    file_format_info_offset, has_encryption_info,
    ffi,                      \* decoded FileFormatInfo, << >> while not decoded
    entries,                  \* decoded (key, value) pairs, in decoding order
    ops,                      \* calls made on the stream, in order
    out, err,                 \* what was written to stdout and stderr
    exitStatus,               \* -1 while running, else the value returned
    runNo, prev               \* invocation number, record of the previous one

vars == << file, env, verbose_mode, show_encryption, pc, fp, pos, header, magic,
           opt_count, i, file_format_info_offset, has_encryption_info, ffi,
           entries, ops, out, err, exitStatus, runNo, prev >>

\* the variables one invocation owns, besides pc, fp, ops, out, err, exitStatus
locals == << pos, header, magic, opt_count, i, file_format_info_offset,
             has_encryption_info, ffi, entries >>

Op(name, ok, at) == [ op |-> name, ok |-> ok, at |-> at ]
Line(tag, v) == [ t |-> tag, v |-> v ]

NoWord == << >>
NoRun == [ ops |-> << >>, entries |-> << >>, offset |-> U32(0), has |-> 0,
           ffi |-> << >>, header |-> << >>, exit |-> -1, verbose |-> 0,
           show |-> 0 ]

InitWith(inputs) ==
    /\ \E x \in inputs : file = x[1] /\ env = x[2]
    /\ verbose_mode = 0
    /\ show_encryption = 0
    /\ pc = "main"
    /\ fp = "null"
    /\ pos = 0
    /\ header = << >>
    /\ magic = NoWord
    /\ opt_count = NoWord
    /\ i = 0
    /\ file_format_info_offset = U32(0)
    /\ has_encryption_info = 0
    /\ ffi = << >>
    /\ entries = << >>
    /\ ops = << >>
    /\ out = << >>
    /\ err = << >>
    /\ exitStatus = -1
    /\ runNo = 1
    /\ prev = NoRun

Init == InitWith(Inputs)

InitRuns == InitWith(RunInputs)

InitFair == InitWith(FairInputs)

(* ---------------- decisions of analyze_xex_file --------------------------- *)

Append2(s, a, b) == Append(Append(s, a), b)

\* fclose(fp) followed by return status
Leave(status, log) ==
    /\ fp' = "closed"
    /\ ops' = Append(log, Op("fclose", TRUE, 0))
    /\ exitStatus' = status
    /\ pc' = "done"

\* faulty variant: the magic check accepts every leading word
MagicMatches_any(m) == TRUE

\* magic != XEX2_MAGIC, negated
MagicMatches(m) == m = U32(XEX2_MAGIC)

\* opt_count > 0 && opt_count < MAX_OPTIONAL_HEADERS
ScanAllowed(c) == U32Less(U32(0), c) /\ U32Less(c, U32(MAX_OPTIONAL_HEADERS))

\* faulty variant: the loop without the display limit
LoopCond_uncapped(n, c) == U32Less(U32(n), c)

\* i < opt_count && i < DISPLAY_HEADER_LIMIT
LoopCond(n, c) == U32Less(U32(n), c) /\ n < DISPLAY_HEADER_LIMIT

\* faulty variant: only the first match is kept
Capture_first(key, value) ==
    IF key = U32(XEX_HEADER_FILE_FORMAT_INFO) /\ has_encryption_info = 0
    THEN [ offset |-> value, has |-> 1 ]
    ELSE [ offset |-> file_format_info_offset, has |-> has_encryption_info ]

\* faulty variant: the match is tested inside the display block
Capture_flagged(key, value) ==
    IF key = U32(XEX_HEADER_FILE_FORMAT_INFO)
       /\ (verbose_mode = 1 \/ show_encryption = 1)
    THEN [ offset |-> value, has |-> 1 ]
    ELSE [ offset |-> file_format_info_offset, has |-> has_encryption_info ]

\* if (key == XEX_HEADER_FILE_FORMAT_INFO) { offset = value; has = 1; }
Capture(key, value) ==
    IF key = U32(XEX_HEADER_FILE_FORMAT_INFO)
    THEN [ offset |-> value, has |-> 1 ]
    ELSE [ offset |-> file_format_info_offset, has |-> has_encryption_info ]

\* faulty variant: the descriptor block without the test of has_encryption_info
DescriptorWanted_unlocated == show_encryption = 1 \/ verbose_mode = 1

\* has_encryption_info && (show_encryption || verbose_mode)
DescriptorWanted ==
    has_encryption_info = 1 /\ (show_encryption = 1 \/ verbose_mode = 1)

(* ---------------- main ----------------------------------------------------- *)

\* getopt_long loop, then analyze_xex_file(argv[optind])
Main ==
    /\ pc = "main"
    /\ \E v \in {0, 1}, e \in {0, 1} :
         /\ verbose_mode' = v
         /\ show_encryption' = e
    /\ pc' = "open"
    /\ UNCHANGED << file, env, fp, locals, ops, out, err, exitStatus, runNo, prev >>

(* ---------------- analyze_xex_file ------------------------------------------ *)

\* banner, fopen
Open ==
    /\ pc = "open"
    /\ out' = Append(out, Line("banner", << >>))
    /\ IF env.openOk
       THEN /\ fp' = "open"
            /\ ops' = Append(ops, Op("fopen", TRUE, 0))
            /\ pc' = "stat"
            /\ UNCHANGED << err, exitStatus >>
       ELSE /\ ops' = Append(ops, Op("fopen", FALSE, 0))
            /\ err' = Append(err, Line("CannotOpen", << >>))
            /\ exitStatus' = 1
            /\ pc' = "done"
            /\ UNCHANGED fp
    /\ UNCHANGED << file, env, verbose_mode, show_encryption, locals, runNo, prev >>

\* faulty variant: the stat failure returns without fclose
Stat_leak ==
    /\ pc = "stat"
    /\ IF env.statOk
       THEN /\ out' = Append2(out, Line("File", << >>), Line("Size", << file.len >>))
            /\ pc' = "read_header"
            /\ UNCHANGED << fp, ops, err, exitStatus >>
       ELSE /\ err' = Append(err, Line("CannotStat", << >>))
            /\ exitStatus' = 1
            /\ pc' = "done"
            /\ UNCHANGED << fp, ops, out >>
    /\ UNCHANGED << file, env, verbose_mode, show_encryption, locals, runNo, prev >>

\* stat, file name and size lines
Stat ==
    /\ pc = "stat"
    /\ IF env.statOk
       THEN /\ out' = Append2(out, Line("File", << >>), Line("Size", << file.len >>))
            /\ pc' = "read_header"
            /\ UNCHANGED << fp, ops, err, exitStatus >>
       ELSE /\ err' = Append(err, Line("CannotStat", << >>))
            /\ Leave(1, ops)
            /\ UNCHANGED out
    /\ UNCHANGED << file, env, verbose_mode, show_encryption, locals, runNo, prev >>

\* fread(&header, sizeof(header), 1, fp)
ReadHeader ==
    /\ pc = "read_header"
    /\ LET r == Fread(file, pos, HeaderSize)
           log == Append(ops, Op("fread_header", r.ok, pos))
           word(k) == LoadLE32([ j \in 1..4 |-> r.bytes[4 * k + j] ])
       IN  /\ pos' = r.pos
           /\ IF r.ok
              THEN /\ header' = [ magic |-> word(0), module_flags |-> word(1),
                                  pe_offset |-> word(2), reserved |-> word(3),
                                  security_offset |-> word(4),
                                  optional_header_count |-> word(5) ]
                   /\ ops' = log
                   /\ pc' = "verify_magic"
                   /\ UNCHANGED << fp, err, exitStatus >>
              ELSE /\ err' = Append(err, Line("CannotReadHeader", << >>))
                   /\ Leave(1, log)
                   /\ UNCHANGED header
    /\ UNCHANGED << file, env, verbose_mode, show_encryption, magic, opt_count, i,
                    file_format_info_offset, has_encryption_info, ffi, entries,
                    out, runNo, prev >>

\* magic = be32_to_cpu(header.magic); if (magic != XEX2_MAGIC) ...
VerifyMagic ==
    /\ pc = "verify_magic"
    /\ magic' = be32_to_cpu(header.magic)
    /\ IF MagicMatches(magic')
       THEN /\ pc' = "show_header"
            /\ UNCHANGED << fp, ops, err, exitStatus >>
       ELSE /\ err' = Append(err, Line("BadMagic", << U32(XEX2_MAGIC), magic' >>))
            /\ Leave(1, ops)
    /\ UNCHANGED << file, env, verbose_mode, show_encryption, pos, header, opt_count,
                    i, file_format_info_offset, has_encryption_info, ffi, entries,
                    out, runNo, prev >>

\* the "=== XEX2 Header ===" block
ShowHeader ==
    /\ pc = "show_header"
    /\ LET fields == Line("header", << be32_to_cpu(header.module_flags),
                                       be32_to_cpu(header.pe_offset),
                                       be32_to_cpu(header.security_offset),
                                       be32_to_cpu(header.optional_header_count) >>)
       IN  out' = IF verbose_mode = 1
                  THEN Append2(out, fields, Line("VerboseOn", << >>))
                  ELSE Append(out, fields)
    /\ pc' = "check_count"
    /\ UNCHANGED << file, env, verbose_mode, show_encryption, fp, locals, ops, err,
                    exitStatus, runNo, prev >>

\* opt_count = be32_to_cpu(...); the sanity check; the table title
CheckCount ==
    /\ pc = "check_count"
    /\ opt_count' = be32_to_cpu(header.optional_header_count)
    /\ IF ScanAllowed(opt_count')
       THEN /\ out' = Append(out, Line("OptionalHeaders", << >>))
            /\ i' = 0
            /\ pc' = "scan"
       ELSE /\ pc' = "descriptor"
            /\ UNCHANGED << out, i >>
    /\ UNCHANGED << file, env, verbose_mode, show_encryption, fp, pos, header, magic,
                    file_format_info_offset, has_encryption_info, ffi, entries,
                    ops, err, exitStatus, runNo, prev >>

\* one evaluation of the for condition and, when true, one iteration
ScanStep ==
    /\ pc = "scan"
    /\ IF ~LoopCond(i, opt_count)
       THEN /\ pc' = "scan_end"
            /\ UNCHANGED << pos, i, file_format_info_offset, has_encryption_info,
                            entries, ops, out >>
       ELSE LET rk == Fread(file, pos, 4)
                rv == Fread(file, rk.pos, 4)
                key == be32_to_cpu(LoadLE32(rk.bytes))
                value == be32_to_cpu(LoadLE32(rv.bytes))
                cap == Capture(key, value)
            IN  IF ~rk.ok
                THEN /\ ops' = Append(ops, Op("fread_key", FALSE, pos))
                     /\ pos' = rk.pos
                     /\ pc' = "scan_end"
                     /\ UNCHANGED << i, file_format_info_offset,
                                     has_encryption_info, entries, out >>
                ELSE IF ~rv.ok
                THEN /\ ops' = Append2(ops, Op("fread_key", TRUE, pos),
                                            Op("fread_value", FALSE, rk.pos))
                     /\ pos' = rv.pos
                     /\ pc' = "scan_end"
                     /\ UNCHANGED << i, file_format_info_offset,
                                     has_encryption_info, entries, out >>
                ELSE /\ ops' = Append2(ops, Op("fread_key", TRUE, pos),
                                            Op("fread_value", TRUE, rk.pos))
                     /\ pos' = rv.pos
                     /\ file_format_info_offset' = cap.offset
                     /\ has_encryption_info' = cap.has
                     /\ entries' = Append(entries, << key, value >>)
                     /\ out' = IF verbose_mode = 1 \/ show_encryption = 1
                               THEN Append(out, Line("entry",
                                        << i, key, value, KeyLabel(key) >>))
                               ELSE out
                     /\ i' = i + 1
                     /\ pc' = "scan"
    /\ UNCHANGED << file, env, verbose_mode, show_encryption, fp, header, magic,
                    opt_count, ffi, err, exitStatus, runNo, prev >>

\* after the loop: the "more headers" line and the blank line
ScanEnd ==
    /\ pc = "scan_end"
    /\ LET more == IF verbose_mode = 1 /\ U32Less(U32(DISPLAY_HEADER_LIMIT), opt_count)
                   THEN << Line("more", << Val(opt_count) - DISPLAY_HEADER_LIMIT >>) >>
                   ELSE << >>
           blank == IF verbose_mode = 1 \/ show_encryption = 1
                    THEN << Line("blank", << >>) >>
                    ELSE << >>
       IN  out' = out \o more \o blank
    /\ pc' = "descriptor"
    /\ UNCHANGED << file, env, verbose_mode, show_encryption, fp, locals, ops, err,
                    exitStatus, runNo, prev >>

\* the if / else if that decides whether the descriptor is decoded
Descriptor ==
    /\ pc = "descriptor"
    /\ IF DescriptorWanted
       THEN /\ out' = Append(out, Line("FormatInfo", << >>))
            /\ pc' = "seek"
       ELSE /\ out' = IF show_encryption = 1 /\ has_encryption_info = 0
                      THEN Append(out, Line("NotFound", << >>))
                      ELSE out
            /\ pc' = "finish"
    /\ UNCHANGED << file, env, verbose_mode, show_encryption, fp, locals, ops, err,
                    exitStatus, runNo, prev >>

\* faulty variant: a failed fseek ends the run with status 1
Seek_fatal ==
    /\ pc = "seek"
    /\ IF env.seekOk
       THEN /\ pos' = Val(file_format_info_offset)
            /\ ops' = Append(ops, Op("fseek", TRUE, file_format_info_offset))
            /\ pc' = "read_descriptor"
            /\ UNCHANGED << fp, out, err, exitStatus >>
       ELSE /\ err' = Append(err, Line("CannotSeek", << file_format_info_offset >>))
            /\ Leave(1, Append(ops, Op("fseek", FALSE, file_format_info_offset)))
            /\ UNCHANGED << pos, out >>
    /\ UNCHANGED << file, env, verbose_mode, show_encryption, header, magic,
                    opt_count, i, file_format_info_offset, has_encryption_info, ffi,
                    entries, runNo, prev >>

\* fseek(fp, file_format_info_offset, SEEK_SET)
Seek ==
    /\ pc = "seek"
    /\ IF env.seekOk
       THEN /\ pos' = Val(file_format_info_offset)
            /\ ops' = Append(ops, Op("fseek", TRUE, file_format_info_offset))
            /\ pc' = "read_descriptor"
            /\ UNCHANGED << out, err >>
       ELSE /\ ops' = Append(ops, Op("fseek", FALSE, file_format_info_offset))
            /\ err' = Append(err, Line("CannotSeek", << file_format_info_offset >>))
            /\ out' = Append(out, Line("blank", << >>))
            /\ pc' = "finish"
            /\ UNCHANGED pos
    /\ UNCHANGED << file, env, verbose_mode, show_encryption, fp, header, magic,
                    opt_count, i, file_format_info_offset, has_encryption_info, ffi,
                    entries, exitStatus, runNo, prev >>

\* what the descriptor block prints for a decoded descriptor
DescriptorLines(d) ==
    << Line("info", << d.info_size, d.encryption,
                       get_encryption_name(d.encryption), d.compression,
                       get_compression_name(d.compression) >>) >>
    \o (IF show_encryption = 1
        THEN << Line("EncryptionStatus",
                     << CASE d.encryption = XEX_ENCRYPTION_NONE -> "NOT encrypted"
                          [] d.encryption = XEX_ENCRYPTION_NORMAL -> "IS ENCRYPTED"
                          [] OTHER -> "UNKNOWN" >>) >>
        ELSE << >>)
    \o (IF verbose_mode = 1
        THEN << Line("CompressionAnalysis",
                     << CASE d.compression = XEX_COMPRESSION_NONE -> "not compressed"
                          [] d.compression = XEX_COMPRESSION_DELTA -> "delta"
                          [] OTHER -> "decompression" >>) >>
        ELSE << >>)

\* faulty variant: a short descriptor read seeks and reads again
ReadDescriptor_retry ==
    /\ pc = "read_descriptor"
    /\ LET r == Fread(file, pos, DescriptorSize)
           d == [ info_size |-> be32_to_cpu(LoadLE32(SubSeq(r.bytes, 1, 4))),
                  encryption |-> be16_to_cpu(LoadLE16(SubSeq(r.bytes, 5, 6))),
                  compression |-> be16_to_cpu(LoadLE16(SubSeq(r.bytes, 7, 8))) ]
       IN  /\ ops' = Append(ops, Op("fread_descriptor", r.ok, pos))
           /\ pos' = r.pos
           /\ IF r.ok
              THEN /\ ffi' = d
                   /\ out' = out \o DescriptorLines(d) \o << Line("blank", << >>) >>
                   /\ pc' = "finish"
                   /\ UNCHANGED err
              ELSE /\ err' = Append(err, Line("CannotReadFormatInfo", << >>))
                   /\ pc' = "seek"
                   /\ UNCHANGED << ffi, out >>
    /\ UNCHANGED << file, env, verbose_mode, show_encryption, fp, header, magic,
                    opt_count, i, file_format_info_offset, has_encryption_info,
                    entries, exitStatus, runNo, prev >>

\* fread(&ffi, sizeof(ffi), 1, fp) and the display of the descriptor
ReadDescriptor ==
    /\ pc = "read_descriptor"
    /\ LET r == Fread(file, pos, DescriptorSize)
           d == [ info_size |-> be32_to_cpu(LoadLE32(SubSeq(r.bytes, 1, 4))),
                  encryption |-> be16_to_cpu(LoadLE16(SubSeq(r.bytes, 5, 6))),
                  compression |-> be16_to_cpu(LoadLE16(SubSeq(r.bytes, 7, 8))) ]
       IN  /\ ops' = Append(ops, Op("fread_descriptor", r.ok, pos))
           /\ pos' = r.pos
           /\ IF r.ok
              THEN /\ ffi' = d
                   /\ out' = out \o DescriptorLines(d) \o << Line("blank", << >>) >>
                   /\ UNCHANGED err
              ELSE /\ err' = Append(err, Line("CannotReadFormatInfo", << >>))
                   /\ out' = Append(out, Line("blank", << >>))
                   /\ UNCHANGED ffi
           /\ pc' = "finish"
    /\ UNCHANGED << file, env, verbose_mode, show_encryption, fp, header, magic,
                    opt_count, i, file_format_info_offset, has_encryption_info,
                    entries, exitStatus, runNo, prev >>

\* "Analysis complete!", fclose(fp), return 0
Finish ==
    /\ pc = "finish"
    /\ out' = Append(out, Line("Complete", << >>))
    /\ Leave(0, ops)
    /\ UNCHANGED << file, env, verbose_mode, show_encryption, locals, err, runNo,
                    prev >>

\* the tool is run again on the same file, in a fresh process
Reinvoke ==
    /\ pc = "done"
    /\ runNo = 1
    /\ runNo' = runNo + 1
    /\ prev' = [ ops |-> ops, entries |-> entries,
                 offset |-> file_format_info_offset, has |-> has_encryption_info,
                 ffi |-> ffi, header |-> header, exit |-> exitStatus,
                 verbose |-> verbose_mode, show |-> show_encryption ]
    /\ verbose_mode' = 0
    /\ show_encryption' = 0
    /\ pc' = "main"
    /\ fp' = "null"
    /\ pos' = 0
    /\ header' = << >>
    /\ magic' = NoWord
    /\ opt_count' = NoWord
    /\ i' = 0
    /\ file_format_info_offset' = U32(0)
    /\ has_encryption_info' = 0
    /\ ffi' = << >>
    /\ entries' = << >>
    /\ ops' = << >>
    /\ out' = << >>
    /\ err' = << >>
    /\ exitStatus' = -1
    /\ UNCHANGED << file, env >>

Next ==
    \/ Main
    \/ Open
    \/ Stat
    \/ ReadHeader
    \/ VerifyMagic
    \/ ShowHeader
    \/ CheckCount
    \/ ScanStep
    \/ ScanEnd
    \/ Descriptor
    \/ Seek
    \/ ReadDescriptor
    \/ Finish

\* one invocation of the tool
Spec == Init /\ [][Next]_vars

\* one invocation, which is not suspended: the program is sequential
FairSpec == InitFair /\ [][Next]_vars /\ WF_vars(Next)

NextRuns == Next \/ Reinvoke

\* two invocations on the same file
SpecRuns == InitRuns /\ [][NextRuns]_vars

(* ---------------- what the input says, read off the bytes ------------------ *)

\* the 32-bit big-endian number at byte offset k of the input
InputWord(k) ==
    << FileByte(file, k), FileByte(file, k + 1), FileByte(file, k + 2),
       FileByte(file, k + 3) >>

InputMagicOk == file.len >= 4 /\ InputWord(0) = U32(XEX2_MAGIC)

\* the four fatal failures
FatalInput ==
    \/ ~env.openOk
    \/ ~env.statOk
    \/ file.len < HeaderSize
    \/ ~InputMagicOk

DeclaredCount == InputWord(20)

\* number of entries whose 8 bytes are all in the file
CompleteEntries == (file.len - HeaderSize) \div EntrySize

InputEntry(k) ==
    << InputWord(HeaderSize + EntrySize * (k - 1)),
       InputWord(HeaderSize + EntrySize * (k - 1) + 4) >>

\* min(c, DISPLAY_HEADER_LIMIT) for a 32-bit c
Capped(c) ==
    IF U32Less(c, U32(DISPLAY_HEADER_LIMIT)) THEN Val(c) ELSE DISPLAY_HEADER_LIMIT

(* ---------------- what a run did, read off its history ---------------------- *)

OpsOf(log, names) == { k \in DOMAIN log : log[k].op \in names }

EntryReads == OpsOf(ops, { "fread_key", "fread_value" })
DescriptorOps == OpsOf(ops, { "fseek", "fread_descriptor" })
ShortEntryReads == { k \in EntryReads : ~ops[k].ok }

Printed(tag) == \E k \in DOMAIN out : out[k].t = tag

ScanEntered == Printed("OptionalHeaders")

ScanOver == pc \in { "scan_end", "descriptor", "seek", "read_descriptor", "finish", "done" }

\* decoded entries whose key is FILE_FORMAT_INFO
Matches == { k \in DOMAIN entries : entries[k][1] = U32(XEX_HEADER_FILE_FORMAT_INFO) }

IsPrefix(s, t) == Len(s) <= Len(t) /\ SubSeq(t, 1, Len(s)) = s

(* ---------------- claims ------------------------------------------------------ *)

\* C1: every fatal failure (fopen fails, stat fails, fewer than 24 header
\* bytes, magic other than 0x58455832) ends the run with exit status 1, and
\* such a run never displays a header field, never reads an entry, never
\* seeks and never reads a descriptor.
C1_FatalAborts ==
    /\ (FatalInput /\ pc = "done") => exitStatus = 1
    /\ FatalInput =>
          /\ ~Printed("header")
          /\ EntryReads = {}
          /\ DescriptorOps = {}
          /\ pc \notin { "show_header", "check_count", "scan", "scan_end",
                         "descriptor", "seek", "read_descriptor", "finish" }
    /\ exitStatus = 1 => (pc = "done" /\ Len(err) >= 1)
    /\ \A k \in DOMAIN err :
          err[k].t = "BadMagic" => err[k].v = << U32(XEX2_MAGIC), InputWord(0) >>

C1_Witness ==
    /\ pc = "done"
    /\ exitStatus = 1
    /\ env = EnvOk
    /\ file.len >= HeaderSize
    /\ ~InputMagicOk
    /\ OpsOf(ops, { "fread_header" }) # {}

\* C2: an input that opens, stats, has at least 24 bytes and starts with
\* 0x58455832 big-endian always returns exit status 0, whatever fails later,
\* and output once produced is never taken back.
C2_ValidHeaderExitsZero ==
    /\ [](pc = "done" /\ ~FatalInput => exitStatus = 0)
    /\ [][IsPrefix(out, out') /\ IsPrefix(err, err')]_vars

C2_Witness ==
    /\ pc = "done"
    /\ exitStatus = 0
    /\ ShortEntryReads # {}
    /\ \E k \in DOMAIN ops :
          /\ ops[k].op = "fread_descriptor"
          /\ ~ops[k].ok
          /\ ops[k].at > file.len
    /\ Printed("header")

\* C3: the table scan is skipped (no entry read) exactly when the declared
\* count is zero or exceeds 100; every count from 1 to 100 inclusive enters
\* the scan and attempts at least one entry read.
C3_SkippedExactlyOutside1To100 ==
    (pc = "done" /\ exitStatus = 0) =>
        (EntryReads = {} <=>
            (DeclaredCount = U32(0) \/ U32Less(U32(MAX_OPTIONAL_HEADERS), DeclaredCount)))

\* C4: when the scan is entered, the entries decoded are exactly the first
\* min(declared count, 20, complete entries in the file) entries of the
\* file, in file order; the first short read ends the scan; an incomplete
\* entry is never decoded and never captured as FILE_FORMAT_INFO.
C4_DecodedEntries ==
    ScanEntered =>
        /\ Len(entries) <= Min(Capped(DeclaredCount), CompleteEntries)
        /\ ScanOver => Len(entries) = Min(Capped(DeclaredCount), CompleteEntries)
        /\ \A k \in DOMAIN entries : entries[k] = InputEntry(k)
        /\ \A k \in ShortEntryReads : \A j \in EntryReads : j <= k
        /\ has_encryption_info = 1 =>
              \E k \in Matches : entries[k][2] = file_format_info_offset
        /\ has_encryption_info = 0 => Matches = {}

C4_Witness ==
    /\ pc = "done"
    /\ DeclaredCount = U32(5)
    /\ CompleteEntries = 3
    /\ file.len = TableLength(3, 5)
    /\ Len(entries) = 3
    /\ ShortEntryReads # {}

\* C5: the stream is opened once and closed exactly once on every exit path
\* after a successful fopen, nothing is done on it after the fclose, and it
\* is never closed when fopen failed.
C5_StreamReleasedOnce ==
    /\ Cardinality(OpsOf(ops, { "fopen" })) <= 1
    /\ Cardinality(OpsOf(ops, { "fclose" })) <= 1
    /\ \A k \in DOMAIN ops : (k = 1) <=> (ops[k].op = "fopen")
    /\ \A k \in OpsOf(ops, { "fclose" }) : k = Len(ops) /\ ops[1].ok
    /\ (fp = "open") <=> (ops # << >> /\ ops[1].ok /\ OpsOf(ops, { "fclose" }) = {})
    /\ pc = "done" =>
          /\ ops # << >>
          /\ ops[1].ok => (fp = "closed" /\ ops[Len(ops)].op = "fclose")
          /\ ~ops[1].ok => (fp = "null" /\ Len(ops) = 1)

C5_Witness ==
    /\ pc = "done"
    /\ env = EnvNoStat
    /\ fp = "closed"
    /\ exitStatus = 1

\* C6: every run terminates, after at most one header read, at most
\* min(declared count, 20) entry reads, and at most one seek followed by at
\* most one descriptor read.
C6_BoundedRun ==
    /\ <>(pc = "done")
    /\ [](/\ Cardinality(OpsOf(ops, { "fread_header" })) <= 1
          /\ OpsOf(ops, { "fread_key" }) # {} =>
                Cardinality(OpsOf(ops, { "fread_key" })) <= Capped(DeclaredCount)
          /\ Cardinality(OpsOf(ops, { "fread_value" })) <=
                Cardinality(OpsOf(ops, { "fread_key" }))
          /\ Cardinality(OpsOf(ops, { "fseek" })) <= 1
          /\ Cardinality(OpsOf(ops, { "fread_descriptor" })) <= 1
          /\ \A k \in OpsOf(ops, { "fread_descriptor" }) :
                k > 1 /\ ops[k - 1].op = "fseek")

C6_Witness ==
    /\ pc = "done"
    /\ DeclaredCount = U32(99)
    /\ CompleteEntries > DISPLAY_HEADER_LIMIT
    /\ Cardinality(OpsOf(ops, { "fread_key" })) = DISPLAY_HEADER_LIMIT
    /\ Cardinality(OpsOf(ops, { "fseek" })) = 1
    /\ Cardinality(OpsOf(ops, { "fread_descriptor" })) = 1
    /\ ~ops[Len(ops) - 1].ok

\* C7: a run whose entry read came up short before min(declared count, 20)
\* entries were decoded reports the truncated table in a diagnostic before
\* it completes.
C7_TruncationReported ==
    (pc = "done" /\ ShortEntryReads # {}) =>
        \/ \E k \in DOMAIN err : err[k].t \notin { "CannotSeek", "CannotReadFormatInfo" }
        \/ \E k \in DOMAIN out :
              out[k].t \notin { "banner", "File", "Size", "header", "VerboseOn",
                                "OptionalHeaders", "entry", "more", "blank",
                                "FormatInfo", "info", "EncryptionStatus",
                                "CompressionAnalysis", "NotFound", "Complete" }

\* C8 (as claimed): with several decoded FILE_FORMAT_INFO entries, the
\* location remembered after the scan is the value of the first one.
C8_FirstMatchKept ==
    (ScanOver /\ Matches # {}) =>
        file_format_info_offset = entries[CHOOSE k \in Matches : \A j \in Matches : k <= j][2]

\* C8 (amended): with several decoded FILE_FORMAT_INFO entries, the location
\* remembered after the scan is the value of the last one in file order;
\* every later duplicate replaces the value captured before it.
C8_LastMatchKept ==
    /\ (Matches # {}) =>
         /\ has_encryption_info = 1
         /\ file_format_info_offset =
               entries[CHOOSE k \in Matches : \A j \in Matches : k >= j][2]
    /\ (Matches = {}) =>
         /\ has_encryption_info = 0
         /\ file_format_info_offset = U32(0)

C8_Witness ==
    /\ pc = "done"
    /\ \E j \in Matches, k \in Matches :
          /\ j < k
          /\ entries[j][2] # entries[k][2]
          /\ file_format_info_offset = entries[k][2]

\* C9: the descriptor is decoded at most once, only after the scan is over
\* and only if a decoded entry has key FILE_FORMAT_INFO; the seek goes to
\* the value of such an entry, as an absolute offset, and the descriptor is
\* read only right after a successful seek, at that offset.
C9_DescriptorOnlyIfLocated ==
    /\ Cardinality(OpsOf(ops, { "fseek" })) <= 1
    /\ Cardinality(OpsOf(ops, { "fread_descriptor" })) <= 1
    /\ DescriptorOps # {} => ScanOver
    /\ \A k \in OpsOf(ops, { "fseek" }) :
          /\ \A j \in EntryReads : j < k
          /\ ops[k].at = file_format_info_offset
          /\ \E e \in 1..Min(CompleteEntries, DISPLAY_HEADER_LIMIT) :
                InputEntry(e) = << U32(XEX_HEADER_FILE_FORMAT_INFO), ops[k].at >>
    /\ \A k \in OpsOf(ops, { "fread_descriptor" }) :
          /\ k > 1
          /\ ops[k - 1].op = "fseek"
          /\ ops[k - 1].ok
          /\ ops[k].at = Val(ops[k - 1].at)
    /\ (~ScanEntered \/ Matches = {}) => DescriptorOps = {}

C9_Witness ==
    /\ pc = "done"
    /\ ffi # << >>
    /\ \E k \in OpsOf(ops, { "fread_descriptor" }) :
          ops[k].ok /\ ops[k].at = 28 /\ ops[k - 1].at = U32(28)

\* what a run did apart from the descriptor seek and read
ScanSteps(log) == SelectSeq(log, LAMBDA o : o.op \notin { "fseek", "fread_descriptor" })

AnyFlag(v, e) == v = 1 \/ e = 1

\* C10 (as claimed): two runs on the same input with any two flag settings
\* perform the same decoding steps, decode the same values and return the
\* same exit status.
C10_FlagsChangeNoStep ==
    (runNo = 2 /\ pc = "done") =>
        /\ ops = prev.ops
        /\ entries = prev.entries
        /\ file_format_info_offset = prev.offset
        /\ has_encryption_info = prev.has
        /\ ffi = prev.ffi
        /\ exitStatus = prev.exit

\* C10 (amended): two runs on the same input agree on the header read, the
\* entry reads, the captured FILE_FORMAT_INFO location, the decoded header
\* and entries and the exit status, whatever their flags; the descriptor
\* seek and read are done only by a run with at least one flag set, and
\* two runs that both have a flag set, or both have none, agree on every
\* step and on the decoded descriptor.
C10_FlagsGateOnlyDescriptor ==
    /\ (pc = "done" /\ exitStatus = 0) =>
          (DescriptorOps # {} <=>
              (Matches # {} /\ AnyFlag(verbose_mode, show_encryption)))
    /\ (runNo = 2 /\ pc = "done") =>
          /\ exitStatus = prev.exit
          /\ header = prev.header
          /\ entries = prev.entries
          /\ file_format_info_offset = prev.offset
          /\ has_encryption_info = prev.has
          /\ ScanSteps(ops) = ScanSteps(prev.ops)
          /\ (AnyFlag(verbose_mode, show_encryption) <=> AnyFlag(prev.verbose, prev.show))
                => (ops = prev.ops /\ ffi = prev.ffi)

C10_Witness ==
    /\ runNo = 2
    /\ pc = "done"
    /\ prev.verbose = 0
    /\ prev.show = 0
    /\ prev.has = 1
    /\ prev.ffi = << >>
    /\ verbose_mode = 1
    /\ ffi # << >>
    /\ ops # prev.ops

====
